---- MODULE Spec2Model ----
(***************************************************************************)
(* Model of baybe/recommenders/naive.py: NaiveHybridSpaceRecommender.      *)
(*                                                                         *)
(* Python objects live in a heap (a sequence of records, the position is   *)
(* the object's identity), so that rebinding a field to a copy (attrs      *)
(* evolve) and mutating an object in place are different things.           *)
(***************************************************************************)
EXTENDS Integers, Sequences, FiniteSets, TLC

VARIABLES heap, caller, orch, warnings, rebuilt, nCalls, lastCall

vars == <<heap, caller, orch, warnings, rebuilt, nCalls, lastCall>>

(* ---------------------------- bounds ----------------------------------- *)
MaxCalls == 2
MaxBatch == 2
NumCandidates == 2
NumContPoints == 2

(* ------------------------- recommender objects ------------------------- *)
\* The capability set of a PureRecommender subclass: the two the orchestrator
\* supports and any other subclass of PureRecommender.
RecommenderKinds == {"Bayesian", "NonPredictive", "Other"}

\* _acquisition_function of a recommender that has none.
NoAcqf == [tag |-> "none"]

NewRecommender(kind, arr, aram) ==
    [kind |-> kind,
     allow_repeated_recommendations |-> arr,
     allow_recommending_already_measured |-> aram,
     acqf |-> NoAcqf]

\* Variant: the flag is set on the instance itself, no copy is made.
evolve_already_measured_inplace(h, id, flag) ==
    [heap |-> [h EXCEPT ![id].allow_recommending_already_measured = flag],
     id |-> id]

\* attrs.evolve(inst, **changes): a NEW instance built by the class's
\* __init__ from the init fields of inst with the changes applied; inst is
\* untouched and the non-init private field is back at its default.
\* The result is the new heap and the identity of the new object.
evolve_already_measured(h, id, flag) ==
    [heap |-> Append(h, [h[id] EXCEPT
                            !.allow_recommending_already_measured = flag,
                            !.acqf = NoAcqf]),
     id |-> Len(h) + 1]

evolve_repeated(h, id, flag) ==
    [heap |-> Append(h, [h[id] EXCEPT
                            !.allow_repeated_recommendations = flag,
                            !.acqf = NoAcqf]),
     id |-> Len(h) + 1]

(* --------------------- __attrs_post_init__ (guard) --------------------- *)
\* Variant: the guard overrides unconditionally.
FlagDiffersAlways(own, sub) == TRUE

\* The condition of both `if` statements: the orchestrator's flag differs
\* from the discrete recommender's flag.
FlagDiffers(own, sub) == own # sub

\* Variant: the second evolve copies the recommender passed in.
SecondEvolveSourceOriginal(o0, o1) == o0.disc_recommender

\* The object the second evolve copies: self.disc_recommender as it is after
\* the first block (possibly already the first copy).
SecondEvolveSource(o0, o1) == o1.disc_recommender

\* First block, lines 51-63.
GuardAlreadyMeasured(st) ==
    LET o == st.orch
        flag == o.allow_recommending_already_measured
    IN  IF FlagDiffers(flag,
              st.heap[o.disc_recommender].allow_recommending_already_measured)
        THEN LET e == evolve_already_measured(st.heap, o.disc_recommender, flag)
             IN
             [heap |-> e.heap,
              orch |-> [o EXCEPT !.disc_recommender = e.id],
              warnings |-> Append(st.warnings,
                                  "allow_recommending_already_measured")]
        ELSE st

\* Second block, lines 65-77.
GuardRepeated(st0, st) ==
    LET o == st.orch
        flag == o.allow_repeated_recommendations
        src == SecondEvolveSource(st0.orch, st.orch)
    IN  IF FlagDiffers(flag,
              st.heap[o.disc_recommender].allow_repeated_recommendations)
        THEN LET e == evolve_repeated(st.heap, src, flag)
             IN
             [heap |-> e.heap,
              orch |-> [o EXCEPT !.disc_recommender = e.id],
              warnings |-> Append(st.warnings,
                                  "allow_repeated_recommendations")]
        ELSE st

\* __attrs_post_init__: both blocks in order.  st is
\* [heap, orch, warnings]; the result has the same shape.
attrs_post_init(st) == GuardRepeated(st, GuardAlreadyMeasured(st))

\* The attrs-generated __init__: stores the arguments, then runs the guard.
NewOrchestrator(h, arr, aram, disc, cont) ==
    attrs_post_init(
        [heap |-> h,
         orch |-> [constructed |-> TRUE,
                   allow_repeated_recommendations |-> arr,
                   allow_recommending_already_measured |-> aram,
                   disc_recommender |-> disc,
                   cont_recommender |-> cont],
         warnings |-> <<>>])

NoOrchestrator ==
    [constructed |-> FALSE,
     allow_repeated_recommendations |-> FALSE,
     allow_recommending_already_measured |-> FALSE,
     disc_recommender |-> 0,
     cont_recommender |-> 0]

(* ------------------------------ pandas --------------------------------- *)
\* A DataFrame: column labels, row labels (the index) and the rows, each a
\* sequence of cell values.  NaN marks a missing cell.
NaN == 0 - 1

DataFrame(columns, index, data) ==
    [columns |-> columns, index |-> index, data |-> data]

NoFrame == DataFrame(<<>>, <<>>, <<>>)

Range(s) == {s[k] : k \in 1..Len(s)}

\* Position of label in a unique index.
PosOf(index, label) == CHOOSE k \in 1..Len(index) : index[k] = label

\* df.loc[ids]: the rows with the given labels, in the order of ids; the
\* result is indexed by ids.
loc(df, ids) ==
    DataFrame(df.columns, ids,
              [k \in 1..Len(ids) |-> df.data[PosOf(df.index, ids[k])]])

\* df.loc[ids].reset_index(drop=True): the same rows under a fresh
\* RangeIndex.
loc_reset(df, ids) ==
    DataFrame(df.columns, [k \in 1..Len(ids) |-> k - 1],
              [k \in 1..Len(ids) |-> df.data[PosOf(df.index, ids[k])]])

RECURSIVE Filter(_, _)
\* The elements of sequence s that are not in set S, in order.
Filter(s, S) ==
    IF s = <<>> THEN <<>>
    ELSE IF Head(s) \in S THEN Filter(Tail(s), S)
         ELSE <<Head(s)>> \o Filter(Tail(s), S)

NaNRow(n) == [k \in 1..n |-> NaN]

\* The cells of df in the row labelled label, NaN where df has no such row.
CellsAt(df, label) ==
    IF label \in Range(df.index)
    THEN df.data[PosOf(df.index, label)]
    ELSE NaNRow(Len(df.columns))

\* pd.concat([a, b], axis=1) for frames with unique indexes: equal indexes
\* are glued position by position; otherwise the rows are aligned on the
\* union of the labels (outer join, labels of a first) and every cell
\* without a partner row is NaN.
concat_axis1(a, b) ==
    IF a.index = b.index
    THEN DataFrame(a.columns \o b.columns, a.index,
                   [k \in 1..Len(a.index) |-> a.data[k] \o b.data[k]])
    ELSE LET idx == a.index \o Filter(b.index, Range(a.index))
         IN  DataFrame(a.columns \o b.columns, idx,
                       [k \in 1..Len(idx) |->
                           CellsAt(a, idx[k]) \o CellsAt(b, idx[k])])

(* ---------------------------- search space ----------------------------- *)
SearchSpaceTypes == {"DISCRETE", "CONTINUOUS", "HYBRID"}

DiscCols == <<"Categorical_1", "Num_disc_1">>
ContCols == <<"Conti_finite1">>

\* Row labels of the discrete subspace (a RangeIndex).
DiscIndex == [k \in 1..NumCandidates |-> k - 1]

\* searchspace.discrete.exp_rep: the experimental representation.
exp_rep ==
    DataFrame(DiscCols, DiscIndex,
              [k \in 1..NumCandidates |-> <<100 + k, 200 + k>>])

\* searchspace.discrete.comp_rep: the computational representation.
comp_rep ==
    DataFrame(DiscCols, DiscIndex,
              [k \in 1..NumCandidates |-> <<k, 10 + k>>])

\* The points of the continuous subspace the model distinguishes, all
\* within its bounds.
ContPoints == 1..NumContPoints

\* to_tensor(df).unsqueeze(-2) of a one-row frame: the row's values.
to_tensor(df) == df.data[1]

NoTensor == <<>>

\* The observation histories (train_x, train_y) a caller passes.
Histories == {"none", "measured"}

(* ----------------------- acquisition functions ------------------------- *)
\* The acquisition function setup_acquisition_function builds: every setup
\* yields a new object, named by the call and the setup within the call
\* that built it.
BaseAcqf(call, setup) ==
    [tag |-> "base", call |-> call, setup |-> setup]

\* PartialAcquisitionFunction(acqf, pinned_part, pin_discrete).
PartialAcquisitionFunction(acqf, pinned_part, pin_discrete) ==
    [tag |-> "partial", acqf |-> acqf, pinned_part |-> pinned_part,
     pin_discrete |-> pin_discrete]

\* The full-dimensional vector the adapter hands to the function it wraps
\* for the free block X: the pinned block before X when pin_discrete,
\* after it otherwise.
PartialForward(paf, X) ==
    IF paf.pin_discrete THEN paf.pinned_part \o X ELSE X \o paf.pinned_part

RECURSIVE BaseInput(_, _)
\* The vector that reaches the base acquisition function when acqf is
\* evaluated on X (through every adapter wrapped around it).
BaseInput(acqf, X) ==
    IF acqf.tag = "partial"
    THEN BaseInput(acqf.acqf, PartialForward(acqf, X))
    ELSE X

RECURSIVE WeightedSum(_, _)
WeightedSum(v, k) ==
    IF k > Len(v) THEN 0 ELSE k * v[k] + WeightedSum(v, k + 1)

\* The score of the base acquisition function on a full-dimensional
\* vector; it depends on which column a value stands in.
BaseScore(v) == WeightedSum(v, 1)

\* Evaluating any acquisition function on X.
Evaluate(acqf, X) == BaseScore(BaseInput(acqf, X))

(* ---------------------- collaborators of recommend --------------------- *)
Event(op, obj, args) == [op |-> op, obj |-> obj, args |-> args]

\* The discrete candidates already recommended and measured under a history.
Measured(history) == IF history = "measured" THEN {0} ELSE {}

\* searchspace.discrete.get_candidates(allow_repeated_recommendations,
\* allow_recommending_already_measured): the labels of the candidates left
\* by the two policies.
get_candidates(arr, aram, history) ==
    Filter(DiscIndex, {i \in Range(DiscIndex) :
                          \/ ~arr /\ i \in Measured(history)
                          \/ ~aram /\ i \in Measured(history)})

\* recommender.setup_acquisition_function(searchspace, train_x, train_y):
\* replaces the recommender's acquisition function by a fresh one.
setup_acquisition_function(f, id, history) ==
    [f EXCEPT !.heap[id].acqf = BaseAcqf(f.call, f.nSetup + 1),
              !.nSetup = f.nSetup + 1,
              !.events = Append(f.events,
                  Event("setup_acquisition_function", id, <<history>>))]

\* recommender._recommend_discrete(subspace_discrete, candidates_comp,
\* batch_size): a Bayesian recommender scores every candidate with its
\* stored acquisition function; the search ends with batch_size labels of
\* the pool or with NotEnoughPointsLeftError (draw).
recommend_discrete(f, id, pool, batch_size, draw) ==
    LET g == [f EXCEPT
                !.events = Append(f.events,
                    Event("_recommend_discrete", id,
                          <<pool, batch_size, draw.raised>>)),
                !.disc_forwarded =
                    IF f.heap[id].kind = "Bayesian"
                    THEN {BaseInput(f.heap[id].acqf, to_tensor(loc(comp_rep, <<i>>))) :
                             i \in Range(pool)}
                    ELSE {}]
    IN  IF draw.raised
        THEN [g EXCEPT !.raised = "NotEnoughPointsLeftError"]
        ELSE [g EXCEPT !.disc_rec_idx = draw.idx]

\* The batch_size points a continuous search returns: the one drawn and
\* the points following it in the subspace, cyclically.
ContRows(first, batch_size) ==
    [k \in 1..batch_size |-> <<((first + k - 2) % NumContPoints) + 1>>]

\* recommender._recommend_continuous(subspace_continuous, batch_size): the
\* stored acquisition function is evaluated on points of the continuous
\* subspace; the search ends with batch_size rows under a RangeIndex or
\* with NoMCAcquisitionFunctionError (draw).
recommend_continuous(f, id, batch_size, draw) ==
    LET g == [f EXCEPT
                !.events = Append(f.events,
                    Event("_recommend_continuous", id, <<batch_size>>)),
                !.cont_forwarded =
                    {BaseInput(f.heap[id].acqf, <<c>>) : c \in ContPoints}]
    IN  IF draw.raised
        THEN [g EXCEPT !.raised = "NoMCAcquisitionFunctionError"]
        ELSE [g EXCEPT !.rec_cont =
                 DataFrame(ContCols, [k \in 1..batch_size |-> k - 1],
                           ContRows(draw.first, batch_size))]

\* recommender.recommend(searchspace, batch_size, train_x, train_y) of a
\* sub-recommender on a space of one kind: a Bayesian recommender sets up
\* its acquisition function; the call returns a batch or raises (draws).
\* Its outcome is recorded with the call.
sub_recommend(f, id, type, batch_size, history, draws) ==
    LET g == IF f.heap[id].kind = "Bayesian"
             THEN setup_acquisition_function(f, id, history)
             ELSE f
        out == IF type = "DISCRETE"
               THEN IF draws.disc_search.raised
                    THEN [raised |-> "NotEnoughPointsLeftError",
                          result |-> NoFrame]
                    ELSE [raised |-> "none",
                          result |-> loc(exp_rep, draws.disc_search.idx)]
               ELSE IF draws.cont_search.raised
                    THEN [raised |-> "NoMCAcquisitionFunctionError",
                          result |-> NoFrame]
                    ELSE [raised |-> "none",
                          result |->
                             DataFrame(ContCols,
                                 [k \in 1..batch_size |-> k - 1],
                                 ContRows(draws.cont_search.first,
                                          batch_size))]
    IN  [g EXCEPT !.events = Append(g.events,
                      Event("recommend", id,
                            [type |-> type, batch_size |-> batch_size,
                             history |-> history, out |-> out])),
                  !.raised = out.raised,
                  !.returned = (out.raised = "none"),
                  !.result = out.result]

(* ----------------------------- recommend ------------------------------- *)
\* The frame of one recommend call: the heap it works on, the calls it has
\* made to its collaborators, its local variables and how it ended.
NewFrame(h, call) ==
    [heap |-> h, call |-> call, nSetup |-> 0, events |-> <<>>,
     raised |-> "none", returned |-> FALSE, result |-> NoFrame,
     cont_part |-> NoTensor, candidates_comp |-> <<>>,
     disc_acqf_part |-> NoAcqf, disc_rec_idx |-> <<>>,
     disc_part |-> NoTensor, cont_acqf_part |-> NoAcqf,
     rec_cont |-> NoFrame,
     disc_forwarded |-> {}, cont_forwarded |-> {}]

\* Lines 89-92: the discrete recommender is Bayesian or non-predictive.
is_bayesian_recommender(rec) == rec.kind = "Bayesian"

is_np_recommender(rec) == rec.kind = "NonPredictive"

\* Variant: no capability check.
CapabilitySupportedAny(rec) == TRUE

CapabilitySupported(rec) ==
    is_bayesian_recommender(rec) \/ is_np_recommender(rec)

\* Variant: the two recommenders interchanged.
degenerate_recommender_swapped(o, type) ==
    IF type = "DISCRETE" THEN o.cont_recommender
    ELSE IF type = "CONTINUOUS" THEN o.disc_recommender
    ELSE 0

\* Lines 100-104: the recommender a space of one kind is handed to (0: none).
degenerate_recommender(o, type) ==
    IF type = "DISCRETE" THEN o.disc_recommender
    ELSE IF type = "CONTINUOUS" THEN o.cont_recommender
    ELSE 0

\* Lines 119-120: one random point of the continuous subspace, as a tensor.
SampleContPart(f, draws) ==
    [f EXCEPT !.events = Append(f.events, Event("samples_random", 0, <<1>>)),
              !.cont_part =
                  to_tensor(DataFrame(ContCols, <<0>>, <<<<draws.cont_sample>>>>))]

\* Variant: the pool is retrieved with both policies forbidding.
GetCandidatesFiltered(f, history) ==
    [f EXCEPT !.events = Append(f.events,
                  Event("get_candidates", 0, <<FALSE, FALSE>>)),
              !.candidates_comp = get_candidates(FALSE, FALSE, history)]

\* Lines 125-128: the candidate pool, retrieved with both policies allowed.
GetCandidates(f, history) ==
    [f EXCEPT !.events = Append(f.events,
                  Event("get_candidates", 0, <<TRUE, TRUE>>)),
              !.candidates_comp = get_candidates(TRUE, TRUE, history)]

\* Variant: the discrete search's adapter built with pin_discrete=True.
DiscPinDiscreteSwapped == TRUE

\* Line 142: the layout flag of the adapter of the discrete search.
DiscPinDiscrete == FALSE

\* Line 166: the layout flag of the adapter of the continuous search.
ContPinDiscrete == TRUE

\* Lines 131-145: a Bayesian discrete recommender gets a fresh acquisition
\* function, which is wrapped with cont_part pinned and stored back.
SetupDiscrete(f, o, history) ==
    IF is_bayesian_recommender(f.heap[o.disc_recommender])
    THEN LET g == setup_acquisition_function(f, o.disc_recommender, history)
             disc_acqf_part ==
                 PartialAcquisitionFunction(g.heap[o.disc_recommender].acqf,
                                            g.cont_part, DiscPinDiscrete)
         IN  [g EXCEPT !.disc_acqf_part = disc_acqf_part,
                       !.heap[o.disc_recommender].acqf = disc_acqf_part]
    ELSE f

\* Variant: an insufficient pool is answered by a second search for a
\* single candidate.
AfterDiscreteSearchRetry(f, o) ==
    IF f.raised = "NotEnoughPointsLeftError"
    THEN [f EXCEPT !.raised = "none",
                   !.events = Append(f.events,
                       Event("_recommend_discrete", o.disc_recommender,
                             <<f.candidates_comp, 1, FALSE>>)),
                   !.disc_rec_idx = <<f.candidates_comp[1]>>]
    ELSE f

\* Lines 148-152: the call of the discrete search stands in no try block;
\* whatever it raises leaves recommend as it is.
AfterDiscreteSearch(f, o) == f

\* Variant: the pin is sampled from the whole computational representation.
SampleDiscPartAny(f, draws) ==
    [f EXCEPT !.events = Append(f.events, Event("sample", 0, <<1>>)),
              !.disc_part = to_tensor(loc(comp_rep,
                                          <<DiscIndex[draws.sample_pos]>>))]

\* Lines 156-157: one of the selected rows, in computational representation.
SampleDiscPart(f, draws) ==
    [f EXCEPT !.events = Append(f.events, Event("sample", 0, <<1>>)),
              !.disc_part =
                  to_tensor(loc(loc(comp_rep, f.disc_rec_idx),
                                <<f.disc_rec_idx[draws.sample_pos]>>))]

\* Variant: the adapter is kept local to the call.
StoreContAdapterNot(f, o, cont_acqf_part) == f

\* Line 168: the adapter is stored on the continuous recommender.
StoreContAdapter(f, o, cont_acqf_part) ==
    [f EXCEPT !.heap[o.cont_recommender].acqf = cont_acqf_part]

\* Variant: the adapter is wrapped around whatever the continuous
\* recommender holds, without a setup.
SetupContinuousNoSetup(f, o, history) ==
    LET cont_acqf_part ==
            PartialAcquisitionFunction(f.heap[o.cont_recommender].acqf,
                                       f.disc_part, ContPinDiscrete)
    IN  StoreContAdapter([f EXCEPT !.cont_acqf_part = cont_acqf_part],
                         o, cont_acqf_part)

\* Lines 160-168: the continuous recommender gets a fresh acquisition
\* function, which is wrapped with disc_part pinned and stored back.
SetupContinuous(f, o, history) ==
    LET g == setup_acquisition_function(f, o.cont_recommender, history)
        cont_acqf_part ==
            PartialAcquisitionFunction(g.heap[o.cont_recommender].acqf,
                                       g.disc_part, ContPinDiscrete)
    IN  StoreContAdapter([g EXCEPT !.cont_acqf_part = cont_acqf_part],
                         o, cont_acqf_part)

\* Variant: the rows are taken from the computational representation.
MergeDiscRowsComp(idx) == loc(comp_rep, idx)

\* Variant: the rows are re-indexed 0..batch_size-1.
MergeDiscRowsReset(idx) == loc_reset(exp_rep, idx)

\* Line 176: the selected rows in experimental representation.
MergeDiscRows(idx) == loc(exp_rep, idx)

\* Variant: the continuous rows keep their own index.
MergeIndexKept(rec_disc_exp, rec_cont) == rec_cont.index

\* Line 177: the index the continuous rows are given.
MergeIndex(rec_disc_exp, rec_cont) == rec_disc_exp.index

\* Lines 176-179: glue the two halves.  Assigning an index of another
\* length raises ValueError.
Merge(f) ==
    LET rec_disc_exp == MergeDiscRows(f.disc_rec_idx)
        index == MergeIndex(rec_disc_exp, f.rec_cont)
    IN  IF Len(index) # Len(f.rec_cont.index)
        THEN [f EXCEPT !.raised = "ValueError"]
        ELSE [f EXCEPT !.returned = TRUE,
                       !.result =
                           concat_axis1(rec_disc_exp,
                               [f.rec_cont EXCEPT !.index = index])]

\* A step that is skipped once the call has raised.
Unless(f, g) == IF f.raised # "none" THEN f ELSE g

\* Lines 113-179: the hybrid setting.
recommend_hybrid(f0, o, batch_size, history, draws) ==
    LET f1 == GetCandidates(SampleContPart(f0, draws), history)
        f2 == SetupDiscrete(f1, o, history)
        f3 == AfterDiscreteSearch(
                  recommend_discrete(f2, o.disc_recommender,
                                     f2.candidates_comp, batch_size,
                                     draws.disc_search), o)
        f4 == Unless(f3, SampleDiscPart(f3, draws))
        f5 == Unless(f4, SetupContinuous(f4, o, history))
        f6 == Unless(f5, recommend_continuous(f5, o.cont_recommender,
                                              batch_size, draws.cont_search))
    IN  Unless(f6, Merge(f6))

\* NaiveHybridSpaceRecommender.recommend(searchspace, batch_size, train_x,
\* train_y): the frame at the end of the call.
recommend(h, call, o, type, batch_size, history, draws) ==
    LET f0 == NewFrame(h, call)
    IN  IF ~CapabilitySupported(h[o.disc_recommender])
        THEN [f0 EXCEPT !.raised = "NotImplementedError"]
        ELSE IF degenerate_recommender(o, type) # 0
             THEN sub_recommend(f0, degenerate_recommender(o, type), type,
                                batch_size, history, draws)
             ELSE recommend_hybrid(f0, o, batch_size, history, draws)

(* ------------------------ serialization round trip --------------------- *)
\* to_json: the init fields of the orchestrator and of its two recommenders
\* (class and flags); the private acquisition function is not a field of
\* the serial form.
unstructure(h, o) ==
    [allow_repeated_recommendations |-> o.allow_repeated_recommendations,
     allow_recommending_already_measured |->
         o.allow_recommending_already_measured,
     disc_recommender |->
         [kind |-> h[o.disc_recommender].kind,
          allow_repeated_recommendations |->
              h[o.disc_recommender].allow_repeated_recommendations,
          allow_recommending_already_measured |->
              h[o.disc_recommender].allow_recommending_already_measured],
     cont_recommender |->
         [kind |-> h[o.cont_recommender].kind,
          allow_repeated_recommendations |->
              h[o.cont_recommender].allow_repeated_recommendations,
          allow_recommending_already_measured |->
              h[o.cont_recommender].allow_recommending_already_measured]]

\* from_json: new recommender objects are built from the serial form and
\* the orchestrator is constructed from them, guard included.
structure(h, ser) ==
    LET d == ser.disc_recommender
        c == ser.cont_recommender
        h1 == Append(h, NewRecommender(d.kind, d.allow_repeated_recommendations,
                                       d.allow_recommending_already_measured))
        h2 == Append(h1, NewRecommender(c.kind, c.allow_repeated_recommendations,
                                        c.allow_recommending_already_measured))
    IN  NewOrchestrator(h2, ser.allow_repeated_recommendations,
                        ser.allow_recommending_already_measured,
                        Len(h) + 1, Len(h) + 2)

\* The attrs-generated __eq__: field by field, recommenders by value.
OrchEq(h, o1, o2) ==
    /\ o1.allow_repeated_recommendations = o2.allow_repeated_recommendations
    /\ o1.allow_recommending_already_measured =
           o2.allow_recommending_already_measured
    /\ h[o1.disc_recommender] = h[o2.disc_recommender]
    /\ h[o1.cont_recommender] = h[o2.cont_recommender]

(* ------------------------------ the machine ---------------------------- *)
NoCall ==
    [made |-> FALSE, type |-> "HYBRID", batch_size |-> 0, history |-> "none",
     frame |-> NewFrame(<<>>, 0)]

NotRebuilt ==
    [done |-> FALSE, orch |-> NoOrchestrator, warnings |-> <<>>,
     afterCalls |-> 0, flagsBefore |-> NoOrchestrator]

\* The flags of a recommender the caller builds without naming any.
CallerFlags == <<FALSE, TRUE>>

\* The recommenders the caller creates before constructing the orchestrator:
\* a discrete recommender of any class with flags out of Flags, and a
\* Bayesian continuous recommender, which may be the very same object when
\* the discrete one is Bayesian.
InitWith(Flags) ==
    /\ \E kind \in RecommenderKinds, arr \in BOOLEAN, aram \in BOOLEAN,
          same \in BOOLEAN :
          /\ <<arr, aram>> \in Flags
          /\ same => kind = "Bayesian"
          /\ heap = IF same
                    THEN <<NewRecommender(kind, arr, aram)>>
                    ELSE <<NewRecommender(kind, arr, aram),
                           NewRecommender("Bayesian", CallerFlags[1],
                                          CallerFlags[2])>>
          /\ caller = [disc_recommender |-> 1,
                       cont_recommender |-> IF same THEN 1 ELSE 2,
                       allow_repeated_recommendations |-> FALSE,
                       allow_recommending_already_measured |-> FALSE,
                       heap |-> heap]
    /\ orch = NoOrchestrator
    /\ warnings = <<>>
    /\ rebuilt = NotRebuilt
    /\ nCalls = 0
    /\ lastCall = NoCall

\* NaiveHybridSpaceRecommender(disc_recommender=..., cont_recommender=...,
\* allow_repeated_recommendations=arr,
\* allow_recommending_already_measured=aram)
Construct(arr, aram) ==
    /\ ~orch.constructed
    /\ LET st == NewOrchestrator(heap, arr, aram, caller.disc_recommender,
                                 caller.cont_recommender)
       IN  /\ heap' = st.heap
           /\ orch' = st.orch
           /\ warnings' = st.warnings
    /\ caller' = [caller EXCEPT !.allow_repeated_recommendations = arr,
                                !.allow_recommending_already_measured = aram,
                                !.heap = heap]
    /\ UNCHANGED <<rebuilt, nCalls, lastCall>>

\* The outcomes of the random draws and of the delegated searches of one
\* call with the given batch size.
InjectiveSeqs(S, n) ==
    {s \in [1..n -> S] : \A j, k \in 1..n : j # k => s[j] # s[k]}

DiscSearchDraws(batch_size) ==
    {[raised |-> TRUE, idx |-> <<>>]} \cup
    {[raised |-> FALSE, idx |-> s] :
        s \in InjectiveSeqs(Range(DiscIndex), batch_size)}

ContSearchDraws ==
    {[raised |-> TRUE, first |-> 1]} \cup
    {[raised |-> FALSE, first |-> c] : c \in ContPoints}

\* A draw no step of the call consumes is not drawn (it is left at its
\* first value): a space of one kind has one delegated call, and a hybrid
\* call whose discrete search raises draws nothing after it.
NoDiscSearch == [raised |-> TRUE, idx |-> <<>>]

NoContSearch == [raised |-> TRUE, first |-> 1]

Consumed(type, draws) ==
    /\ type = "DISCRETE" =>
          /\ draws.cont_sample = 1
          /\ draws.sample_pos = 1
          /\ draws.cont_search = NoContSearch
    /\ type = "CONTINUOUS" =>
          /\ draws.cont_sample = 1
          /\ draws.sample_pos = 1
          /\ draws.disc_search = NoDiscSearch
    /\ (type = "HYBRID" /\ draws.disc_search.raised) =>
          /\ draws.sample_pos = 1
          /\ draws.cont_search = NoContSearch

\* orchestrator.recommend(searchspace, batch_size, train_x, train_y)
Recommend(type, batch_size, history) ==
    /\ orch.constructed
    /\ ~lastCall.made
    /\ nCalls < MaxCalls
    /\ \E cont_sample \in ContPoints,
          disc_search \in DiscSearchDraws(batch_size),
          sample_pos \in 1..batch_size,
          cont_search \in ContSearchDraws :
          LET draws == [cont_sample |-> cont_sample,
                        disc_search |-> disc_search,
                        sample_pos |-> sample_pos,
                        cont_search |-> cont_search]
              f == recommend(heap, nCalls + 1, orch, type, batch_size,
                             history, draws)
          IN  /\ Consumed(type, draws)
              /\ heap' = f.heap
              /\ lastCall' = [made |-> TRUE, type |-> type,
                              batch_size |-> batch_size,
                              history |-> history, frame |-> f]
    /\ nCalls' = nCalls + 1
    /\ UNCHANGED <<caller, orch, warnings, rebuilt>>

\* The caller has taken the batch, or caught the exception: the frame of
\* the call is gone and the orchestrator can be called again.
Discard ==
    /\ lastCall.made
    /\ lastCall' = NoCall
    /\ UNCHANGED <<heap, caller, orch, warnings, rebuilt, nCalls>>

\* BayBE.from_json(baybe.to_json()) of
\* test_serialization_without_recommendation, at any time.
Rebuild ==
    /\ orch.constructed
    /\ ~rebuilt.done
    /\ LET st == structure(heap, unstructure(heap, orch))
       IN  /\ heap' = st.heap
           /\ rebuilt' = [done |-> TRUE, orch |-> st.orch,
                          warnings |-> st.warnings, afterCalls |-> nCalls,
                          flagsBefore |-> unstructure(heap, orch)]
    /\ UNCHANGED <<caller, orch, warnings, nCalls, lastCall>>

\* Recommendation: the discrete recommender comes with the default flags,
\* the orchestrator with any.
Init == InitWith({CallerFlags})

Next ==
    \/ \E arr \in BOOLEAN, aram \in BOOLEAN : Construct(arr, aram)
    \/ \E type \in SearchSpaceTypes, batch_size \in 1..MaxBatch,
          history \in Histories : Recommend(type, batch_size, history)
    \/ Discard

Spec == Init /\ [][Next]_vars

\* Construction and the serialization round trip of the tests.
NextGuard ==
    \/ \E arr \in BOOLEAN, aram \in BOOLEAN : Construct(arr, aram)
    \/ Rebuild

\* Every combination of the recommender's and the orchestrator's flags.
InitGuard == InitWith(BOOLEAN \X BOOLEAN)

SpecGuard == InitGuard /\ [][NextGuard]_vars

(* ------------------------------ properties ---------------------------- *)
\* The frame of the last recommend call and the recommenders the
\* orchestrator refers to.
Frame == lastCall.frame

Disc == heap[orch.disc_recommender]

Cont == heap[orch.cont_recommender]

Supported == Disc.kind \in {"Bayesian", "NonPredictive"}

HybridReturned ==
    lastCall.made /\ lastCall.type = "HYBRID" /\ Frame.returned

RangeIndex(n) == [k \in 1..n |-> k - 1]

\* The last call made exactly one delegated recommend call, to recommender
\* id with the caller's arguments, and ended as that call ended.
DelegatedExactlyTo(id) ==
    LET ks == {k \in 1..Len(Frame.events) : Frame.events[k].op = "recommend"}
    IN  /\ Cardinality(ks) = 1
        /\ \A k \in ks :
              LET e == Frame.events[k]
              IN  /\ e.obj = id
                  /\ e.args.type = lastCall.type
                  /\ e.args.batch_size = lastCall.batch_size
                  /\ e.args.history = lastCall.history
                  /\ Frame.raised = e.args.out.raised
                  /\ Frame.returned = (e.args.out.raised = "none")
                  /\ Frame.result = e.args.out.result

DegenerateTarget ==
    IF lastCall.type = "DISCRETE" THEN orch.disc_recommender
    ELSE orch.cont_recommender

\* C1 as stated: on a DISCRETE or CONTINUOUS space, whatever the discrete
\* recommender is, recommend ends exactly as the corresponding
\* sub-recommender's recommend, called with the same arguments, ends.
C1_AnyRecommender ==
    (lastCall.made /\ lastCall.type \in {"DISCRETE", "CONTINUOUS"})
        => DelegatedExactlyTo(DegenerateTarget)

\* C1 amended: on a DISCRETE or CONTINUOUS space recommend ends exactly as
\* the corresponding sub-recommender's recommend ends when the discrete
\* recommender is Bayesian or non-predictive; otherwise it raises
\* NotImplementedError for either kind of space without calling anything.
C1_DegenerateEquivalence ==
    (lastCall.made /\ lastCall.type \in {"DISCRETE", "CONTINUOUS"})
        => IF Supported
           THEN DelegatedExactlyTo(DegenerateTarget)
           ELSE Frame.raised = "NotImplementedError" /\ Frame.events = <<>>

C1_Witness ==
    /\ lastCall.made /\ lastCall.type = "DISCRETE" /\ lastCall.batch_size = 2
    /\ Supported /\ orch.disc_recommender # orch.cont_recommender
    /\ Frame.returned /\ Frame.result.index = <<1, 0>>

\* C2: a recommend call on a DISCRETE or HYBRID space with a discrete
\* recommender that is neither Bayesian nor non-predictive raises
\* NotImplementedError having called no collaborator (no random draw, no
\* pool retrieval, no setup, no search, no delegated recommend) and leaves
\* every recommender as it was.
C2_FailFast ==
    [][(/\ nCalls' = nCalls + 1
        /\ ~Supported
        /\ lastCall'.type \in {"DISCRETE", "HYBRID"})
          => /\ lastCall'.frame.raised = "NotImplementedError"
             /\ ~lastCall'.frame.returned
             /\ lastCall'.frame.events = <<>>
             /\ heap' = heap]_vars

C2_Witness ==
    /\ lastCall.made /\ lastCall.type = "HYBRID" /\ ~Supported
    /\ Frame.raised = "NotImplementedError"

\* The warnings construction owes: one per flag that differed between the
\* orchestrator's arguments and the recommender passed in, in guard order.
ExpectedWarnings ==
    LET passed == caller.heap[caller.disc_recommender]
    IN  (IF caller.allow_recommending_already_measured
              # passed.allow_recommending_already_measured
         THEN <<"allow_recommending_already_measured">> ELSE <<>>)
        \o
        (IF caller.allow_repeated_recommendations
              # passed.allow_repeated_recommendations
         THEN <<"allow_repeated_recommendations">> ELSE <<>>)

\* C3: after construction with any flags, the orchestrator's discrete
\* recommender has both flags equal to the orchestrator's, the
\* orchestrator's flags are those it was constructed with, and exactly one
\* warning was emitted per flag that differed.
C3_FlagSync ==
    orch.constructed =>
        /\ Disc.allow_repeated_recommendations
               = orch.allow_repeated_recommendations
        /\ Disc.allow_recommending_already_measured
               = orch.allow_recommending_already_measured
        /\ orch.allow_repeated_recommendations
               = caller.allow_repeated_recommendations
        /\ orch.allow_recommending_already_measured
               = caller.allow_recommending_already_measured
        /\ warnings = ExpectedWarnings

C3_Witness ==
    /\ orch.constructed
    /\ warnings = <<"allow_recommending_already_measured",
                    "allow_repeated_recommendations">>

NoNaN(df) ==
    \A k \in 1..Len(df.data) : \A c \in 1..Len(df.data[k]) :
        df.data[k][c] # NaN

\* C4: a hybrid call that returns yields batch_size rows over the discrete
\* columns followed by the continuous columns, every cell filled.
C4_BatchShape ==
    HybridReturned =>
        /\ Len(Frame.result.index) = lastCall.batch_size
        /\ Len(Frame.result.data) = lastCall.batch_size
        /\ Frame.result.columns = DiscCols \o ContCols
        /\ \A k \in 1..Len(Frame.result.data) :
              Len(Frame.result.data[k]) = Len(DiscCols) + Len(ContCols)
        /\ NoNaN(Frame.result)

C4_Witness ==
    /\ HybridReturned /\ lastCall.batch_size = 1
    /\ Frame.disc_rec_idx = <<1>>

\* C5: in a returned hybrid batch the discrete part of row i is the
\* experimental row of the i-th selected label and the continuous part of
\* row i is the i-th row of the continuous search, unchanged.
C5_MergeUnmodified ==
    HybridReturned =>
        /\ Len(Frame.result.data) = lastCall.batch_size
        /\ \A i \in 1..Len(Frame.result.data) :
              LET row == Frame.result.data[i]
                  nd == Len(DiscCols)
              IN  /\ SubSeq(row, 1, nd)
                        = exp_rep.data[PosOf(exp_rep.index,
                                             Frame.disc_rec_idx[i])]
                  /\ SubSeq(row, 1, nd) \in Range(exp_rep.data)
                  /\ SubSeq(row, nd + 1, Len(row)) = Frame.rec_cont.data[i]
                  /\ \A c \in nd + 1..Len(row) : row[c] \in ContPoints

C5_Witness ==
    /\ HybridReturned /\ lastCall.batch_size = 2
    /\ Frame.disc_rec_idx = <<1, 0>>
    /\ Frame.rec_cont.data = <<<<2>>, <<1>>>>

\* C6 as stated: after a hybrid call returns, no adapter is stored on
\* either sub-recommender.
C6_CallLocal ==
    HybridReturned => Disc.acqf.tag # "partial" /\ Cont.acqf.tag # "partial"

\* C6 amended: after a hybrid call returns, the adapter built in that call
\* for the continuous search is what the continuous recommender stores, and
\* the adapter built for the discrete search is what a Bayesian discrete
\* recommender stores unless it is the continuous recommender itself.
C6_AdaptersPersist ==
    HybridReturned =>
        /\ Cont.acqf.tag = "partial"
        /\ Cont.acqf = Frame.cont_acqf_part
        /\ Cont.acqf.pinned_part = Frame.disc_part
        /\ Cont.acqf.acqf.call = nCalls
        /\ (Disc.kind = "Bayesian"
              /\ orch.disc_recommender # orch.cont_recommender)
             => /\ Disc.acqf.tag = "partial"
                /\ Disc.acqf = Frame.disc_acqf_part
                /\ Disc.acqf.pinned_part = Frame.cont_part
                /\ Disc.acqf.acqf.call = nCalls

C6_Witness ==
    /\ HybridReturned /\ nCalls = 2 /\ Disc.kind = "Bayesian"
    /\ orch.disc_recommender # orch.cont_recommender
    /\ Disc.acqf.tag = "partial" /\ Cont.acqf.tag = "partial"

\* C7: an orchestrator rebuilt, before any recommendation, from the fields
\* of one constructed with a Bayesian or non-predictive discrete
\* recommender equals the original, and the guard of the rebuilt one
\* changes no flag and emits no warning.
C7_RoundTrip ==
    (rebuilt.done /\ rebuilt.afterCalls = 0 /\ Supported) =>
        /\ rebuilt.orch.constructed
        /\ OrchEq(heap, orch, rebuilt.orch)
        /\ unstructure(heap, rebuilt.orch) = rebuilt.flagsBefore
        /\ rebuilt.warnings = <<>>

C7_Witness ==
    /\ rebuilt.done /\ Supported /\ Len(warnings) = 2
    /\ rebuilt.orch.disc_recommender # orch.disc_recommender

\* C8 as stated: the row index of a returned hybrid batch is
\* 0, 1, ..., batch_size - 1 whatever the discrete search selected.
C8_RangeIndex ==
    HybridReturned => Frame.result.index = RangeIndex(lastCall.batch_size)

\* C8 amended: the row index of a returned hybrid batch is the sequence of
\* labels the discrete search selected, in selection order (the continuous
\* rows' index is overwritten with it).
C8_SelectedLabelsIndex ==
    HybridReturned => Frame.result.index = Frame.disc_rec_idx

C8_Witness ==
    /\ HybridReturned /\ lastCall.batch_size = 2
    /\ Frame.result.index = <<1, 0>>

\* C9 as stated: after construction the orchestrator refers to the very
\* recommender object the caller passed, and that object carries the
\* orchestrator's flags.
C9_InPlace ==
    orch.constructed =>
        /\ orch.disc_recommender = caller.disc_recommender
        /\ heap[caller.disc_recommender].allow_repeated_recommendations
               = orch.allow_repeated_recommendations
        /\ heap[caller.disc_recommender].allow_recommending_already_measured
               = orch.allow_recommending_already_measured

\* C9 amended: when a flag differs at construction, the orchestrator's
\* field is rebound to a new copy carrying the orchestrator's flags; the
\* object the caller passed keeps its own flags.  When no flag differs the
\* orchestrator refers to the object passed.
C9_OverrideRebinds ==
    orch.constructed =>
        /\ heap[caller.disc_recommender]
               = caller.heap[caller.disc_recommender]
        /\ IF warnings # <<>>
           THEN /\ orch.disc_recommender # caller.disc_recommender
                /\ orch.disc_recommender > Len(caller.heap)
                /\ Disc.allow_repeated_recommendations
                       = orch.allow_repeated_recommendations
                /\ Disc.allow_recommending_already_measured
                       = orch.allow_recommending_already_measured
           ELSE orch.disc_recommender = caller.disc_recommender

C9_Witness ==
    /\ orch.constructed /\ Len(warnings) = 1
    /\ heap[caller.disc_recommender].allow_recommending_already_measured
           # orch.allow_recommending_already_measured

\* C10: in a hybrid call the adapter of the discrete search pins cont_part
\* with pin_discrete false and the adapter of the continuous search pins
\* disc_part with pin_discrete true, so every vector either search hands
\* to the base function is (discrete block, continuous block), and the
\* adapter's score is the base function's score on that vector.
C10_ColumnOrder ==
    (lastCall.made /\ lastCall.type = "HYBRID") =>
        /\ Frame.disc_acqf_part.tag = "partial" =>
              /\ Frame.disc_acqf_part.pinned_part = Frame.cont_part
              /\ ~Frame.disc_acqf_part.pin_discrete
              /\ Frame.disc_forwarded =
                    {comp_rep.data[k] \o Frame.cont_part :
                        k \in 1..Len(comp_rep.data)}
              /\ \A k \in 1..Len(comp_rep.data) :
                    Evaluate(Frame.disc_acqf_part, comp_rep.data[k])
                        = BaseScore(comp_rep.data[k] \o Frame.cont_part)
        /\ Frame.cont_acqf_part.tag = "partial" =>
              /\ Frame.cont_acqf_part.pinned_part = Frame.disc_part
              /\ Frame.cont_acqf_part.pin_discrete
              /\ Frame.disc_part \in Range(comp_rep.data)
              /\ Frame.cont_forwarded =
                    {Frame.disc_part \o <<c>> : c \in ContPoints}
              /\ \A c \in ContPoints :
                    Evaluate(Frame.cont_acqf_part, <<c>>)
                        = BaseScore(Frame.disc_part \o <<c>>)

C10_Witness ==
    /\ HybridReturned /\ Disc.kind = "Bayesian"
    /\ Frame.disc_acqf_part.tag = "partial"
    /\ Frame.cont_acqf_part.tag = "partial"
    /\ Frame.cont_part = <<2>> /\ Frame.disc_part = <<2, 12>>

\* The collaborator calls of a hybrid call that runs to its end, in order;
\* a non-predictive discrete recommender has no acquisition setup.
CycleOps(kind) ==
    <<"samples_random", "get_candidates">>
    \o (IF kind = "Bayesian" THEN <<"setup_acquisition_function">> ELSE <<>>)
    \o <<"_recommend_discrete", "sample", "setup_acquisition_function",
         "_recommend_continuous">>

Ops(f) == [k \in 1..Len(f.events) |-> f.events[k].op]

IsPrefix(s, t) == Len(s) <= Len(t) /\ s = SubSeq(t, 1, Len(s))

EventsOf(f, op) == {k \in 1..Len(f.events) : f.events[k].op = op}

HybridCycle == lastCall.made /\ lastCall.type = "HYBRID" /\ Supported

\* C11: a hybrid call that enters the cycle draws one continuous point,
\* once and before the one discrete search; the discrete search is over
\* before the continuous setup and the one continuous search; the discrete
\* pin is one row among those selected in this call; every vector of one
\* half carries the same pin.
C11_CycleOrder ==
    HybridCycle =>
        /\ IsPrefix(Ops(Frame), CycleOps(Disc.kind))
        /\ Cardinality(EventsOf(Frame, "samples_random")) = 1
        /\ Cardinality(EventsOf(Frame, "_recommend_discrete")) = 1
        /\ Frame.events[1] = Event("samples_random", 0, <<1>>)
        /\ Len(Frame.cont_part) = Len(ContCols)
        /\ \A k \in EventsOf(Frame, "_recommend_discrete") :
              Frame.events[k].obj = orch.disc_recommender
        /\ \A k \in EventsOf(Frame, "_recommend_continuous") :
              Frame.events[k].obj = orch.cont_recommender
        /\ Frame.returned => Ops(Frame) = CycleOps(Disc.kind)
        /\ Frame.disc_part # NoTensor =>
              \E k \in 1..Len(Frame.disc_rec_idx) :
                  Frame.disc_part
                      = comp_rep.data[PosOf(comp_rep.index,
                                            Frame.disc_rec_idx[k])]
        /\ \A v \in Frame.disc_forwarded :
              SubSeq(v, Len(DiscCols) + 1, Len(v)) = Frame.cont_part
        /\ \A v \in Frame.cont_forwarded :
              SubSeq(v, 1, Len(DiscCols)) = Frame.disc_part

C11_Witness ==
    /\ HybridReturned /\ lastCall.batch_size = 2 /\ Disc.kind = "Bayesian"
    /\ Len(Frame.events) = 7
    /\ Frame.disc_rec_idx = <<0, 1>> /\ Frame.disc_part = <<2, 12>>

\* The discrete search of the call with frame f raised.
DiscSearchRaised(f) ==
    \E k \in EventsOf(f, "_recommend_discrete") : f.events[k].args[3]

\* The step is a hybrid recommend call whose discrete search raises.
InsufficientStep ==
    /\ nCalls' = nCalls + 1
    /\ lastCall'.type = "HYBRID"
    /\ DiscSearchRaised(lastCall'.frame)

\* The call ends with the search's error, after one discrete search and
\* with no continuous search.
NoRecovery(f) ==
    /\ f.raised = "NotEnoughPointsLeftError"
    /\ ~f.returned
    /\ Cardinality(EventsOf(f, "_recommend_discrete")) = 1
    /\ f.events[Len(f.events)].op = "_recommend_discrete"
    /\ EventsOf(f, "_recommend_continuous") = {}

\* C12 as stated: when the discrete search raises, recommend raises the
\* same error, nothing is retried, no setup and no search is invoked on the
\* continuous recommender, and the continuous recommender is as before.
C12_ContinuousUntouched ==
    [][InsufficientStep =>
          /\ NoRecovery(lastCall'.frame)
          /\ \A k \in 1..Len(lastCall'.frame.events) :
                lastCall'.frame.events[k].obj # orch.cont_recommender
          /\ heap'[orch.cont_recommender] = heap[orch.cont_recommender]]_vars

\* C12 amended: when the discrete search raises, recommend raises the same
\* error, nothing is retried and the continuous half is not started; a
\* continuous recommender that is another object than the discrete one is
\* as before, one that is the discrete recommender itself holds the
\* adapter set up for the discrete search.
C12_NoRecovery ==
    [][InsufficientStep =>
          /\ NoRecovery(lastCall'.frame)
          /\ Ops(lastCall'.frame)
                = SubSeq(CycleOps(Disc.kind), 1, Len(lastCall'.frame.events))
          /\ IF orch.cont_recommender # orch.disc_recommender
             THEN /\ heap'[orch.cont_recommender]
                        = heap[orch.cont_recommender]
                  /\ \A k \in 1..Len(lastCall'.frame.events) :
                        lastCall'.frame.events[k].obj
                            # orch.cont_recommender
             ELSE /\ heap'[orch.cont_recommender].acqf
                        = lastCall'.frame.disc_acqf_part
                  /\ lastCall'.frame.disc_acqf_part.tag = "partial"]_vars

C12_Witness ==
    /\ lastCall.made /\ lastCall.type = "HYBRID" /\ nCalls = 2
    /\ DiscSearchRaised(Frame)
    /\ Frame.raised = "NotEnoughPointsLeftError"
    /\ Disc.kind = "Bayesian"
    /\ orch.cont_recommender # orch.disc_recommender
    /\ Cont.acqf.tag = "partial"

\* C13: whatever the flags of the orchestrator and of its discrete
\* recommender and whatever the history, a hybrid call retrieves the pool
\* with both policies allowed, hands the full candidate set to the discrete
\* search, and returns one row per selected label, none dropped.
C13_FullPool ==
    HybridCycle =>
        /\ \A k \in EventsOf(Frame, "get_candidates") :
              Frame.events[k].args = <<TRUE, TRUE>>
        /\ Frame.candidates_comp = DiscIndex
        /\ \A k \in EventsOf(Frame, "_recommend_discrete") :
              Frame.events[k].args[1] = DiscIndex
        /\ Frame.returned =>
              /\ Frame.result.index = Frame.disc_rec_idx
              /\ Len(Frame.result.data) = Len(Frame.disc_rec_idx)

C13_Witness ==
    /\ HybridReturned /\ lastCall.history = "measured"
    /\ ~orch.allow_repeated_recommendations
    /\ ~orch.allow_recommending_already_measured
    /\ ~Disc.allow_recommending_already_measured
    /\ Frame.disc_rec_idx = <<0>>

\* C14: in every hybrid call each adapter wraps the acquisition function a
\* setup of the same call has just produced, never an adapter, also when
\* one object is both recommenders; the continuous search runs with the
\* adapter that pins the discrete sample.
C14_NoNesting ==
    (lastCall.made /\ lastCall.type = "HYBRID") =>
        /\ Frame.disc_acqf_part.tag = "partial" =>
              /\ Frame.disc_acqf_part.acqf.tag = "base"
              /\ Frame.disc_acqf_part.acqf.call = Frame.call
              /\ Frame.disc_acqf_part.acqf.setup = 1
        /\ Frame.cont_acqf_part.tag = "partial" =>
              /\ Frame.cont_acqf_part.acqf.tag = "base"
              /\ Frame.cont_acqf_part.acqf.call = Frame.call
              /\ Frame.cont_acqf_part.acqf.setup = Frame.nSetup
        /\ EventsOf(Frame, "_recommend_continuous") # {} =>
              /\ Frame.cont_acqf_part.tag = "partial"
              /\ Frame.cont_acqf_part.pinned_part = Frame.disc_part
              /\ Cont.acqf = Frame.cont_acqf_part
              /\ Frame.cont_forwarded =
                    {Frame.disc_part \o <<c>> : c \in ContPoints}

C14_Witness ==
    /\ HybridReturned /\ nCalls = 2 /\ Disc.kind = "Bayesian"
    /\ orch.disc_recommender = orch.cont_recommender
    /\ Frame.nSetup = 2
    /\ Cont.acqf.acqf.setup = 2

====
